---- MODULE Spec2Model ----
(***************************************************************************)
(* Model of src/index.js: the POST /upload handler, its process-wide       *)
(* state (fileCache, activeFile, compareMode) and the string heuristics    *)
(* that pick the text sent to the completion service.                      *)
(*                                                                         *)
(* A JavaScript string is a sequence of one-character strings, so that     *)
(* toLowerCase, includes, trim and the regular expression are computed     *)
(* character by character.                                                 *)
(***************************************************************************)
EXTENDS Integers, Sequences, FiniteSets, TLC

(***************************************************************************)
(* Bounds of the model.                                                    *)
(***************************************************************************)
\* the number of uploads admitted into the store
MaxDocs == 3

(***************************************************************************)
(* JavaScript values.                                                      *)
(***************************************************************************)
Null == [type |-> "null"]
Undefined == [type |-> "undefined"]
\* a string value; chars is the sequence of its characters
Str(chars) == [type |-> "string", chars |-> chars]

(***************************************************************************)
(* String primitives.                                                      *)
(***************************************************************************)
UpperCaseLetters == <<"A","B","C","D","E","F","G","H","I","J","K","L","M","N","O","P","Q","R","S","T","U","V","W","X","Y","Z">>
LowerCaseLetters == <<"a","b","c","d","e","f","g","h","i","j","k","l","m","n","o","p","q","r","s","t","u","v","w","x","y","z">>

LowerOf == [c \in {UpperCaseLetters[i] : i \in 1..26} |->
              LowerCaseLetters[CHOOSE i \in 1..26 : UpperCaseLetters[i] = c]]

toLowerCaseChar(c) == IF c \in DOMAIN LowerOf THEN LowerOf[c] ELSE c

\* String.prototype.toLowerCase
toLowerCase(s) == [i \in 1..Len(s) |-> toLowerCaseChar(s[i])]

\* String.prototype.includes
includes(s, t) == \E i \in 0..(Len(s) - Len(t)) : SubSeq(s, i + 1, i + Len(t)) = t

WhiteSpace == {" ", "\n", "\t", "\r"}

\* String.prototype.trim
trim(s) ==
  LET kept == {i \in 1..Len(s) : s[i] \notin WhiteSpace}
      IN IF kept = {} THEN << >>
         ELSE LET lo == CHOOSE i \in kept : \A j \in kept : i <= j
                  hi == CHOOSE i \in kept : \A j \in kept : j <= i
              IN SubSeq(s, lo, hi)

\* "." of a regular expression without the s flag: any character but a line terminator
LineTerminators == {"\n", "\r"}
Dot(c) == c \notin LineTerminators

(***************************************************************************)
(* The regular expression of extractFileTopics, flag i:                    *)
(*   compare (the )?file (about|with) (.+?) (and|with) (the )?file         *)
(*   (about|with) (.+)                                                     *)
(* A position is an index into the string; 0 stands for "no match".        *)
(***************************************************************************)
\* the literal lit (lower case) matches s at position p, ignoring case
LitAt(s, p, lit) ==
  /\ p >= 1
  /\ p + Len(lit) - 1 <= Len(s)
  /\ toLowerCase(SubSeq(s, p, p + Len(lit) - 1)) = lit

\* the positions after one of the literals lits matched at a position of P
AfterAny(s, P, lits) ==
  UNION {{p + Len(lit) : lit \in {l \in lits : LitAt(s, p, l)}} : p \in P}

\* (the )? : with or without the article
OptThe(s, P) == P \cup AfterAny(s, P, {<<"t","h","e"," ">>})

\* file (about|with) followed by a space
FileAboutWith(s, P) ==
  AfterAny(s, AfterAny(s, AfterAny(s, OptThe(s, P), {<<"f","i","l","e"," ">>}),
                       {<<"a","b","o","u","t">>, <<"w","i","t","h">>}), {<<" ">>})

\* where topic 1 may start when the match starts at i
Topic1Starts(s, i) == FileAboutWith(s, AfterAny(s, {i}, {<<"c","o","m","p","a","r","e"," ">>}))

\* where topic 2 may start when topic 1 ends at b
Topic2Starts(s, b) ==
  FileAboutWith(s, AfterAny(s, AfterAny(s, AfterAny(s, {b + 1}, {<<" ">>}),
                                         {<<"a","n","d">>, <<"w","i","t","h">>}), {<<" ">>}))

\* topic 2 can be matched from c: (.+) needs one character at least
Topic2At(s, c) == c <= Len(s) /\ Dot(s[c])

\* the ends b of topic 1 = s[a..b] from which the rest of the expression matches
Topic1Ends(s, a) ==
  {b \in a..Len(s) : /\ \A k \in a..b : Dot(s[k])
                     /\ \E c \in Topic2Starts(s, b) : Topic2At(s, c)}

\* the element of a set of one element
TheOne(S) == CHOOSE x \in S : TRUE

\* every way the expression matches s up to the end of topic 1: <<i, a, b>>
\* for a match that starts at i with topic 1 = s[a..b]
AllMatches(s) ==
  UNION {UNION {{<<i, a, b>> : b \in Topic1Ends(s, a)} : a \in Topic1Starts(s, i)} :
           i \in 1..Len(s)}

\* the match the backtracking finds first: the leftmost start, then the
\* shortest (.+?)
FirstMatch(M) ==
  CHOOSE m \in M : \A n \in M : m[1] < n[1] \/ (m[1] = n[1] /\ m[3] <= n[3])

\* the end of the greedy (.+) that starts at c: the last character before a
\* line terminator or the end of the string
Topic2End(s, c) ==
  CHOOSE e \in c..Len(s) :
    /\ \A k \in c..e : Dot(s[k])
    /\ e = Len(s) \/ ~Dot(s[e + 1])

\* the captured groups 3 and 7 of the match m
Groups(s, m) ==
  TheOne({[found |-> TRUE, group3 |-> SubSeq(s, m[2], m[3]),
           group7 |-> SubSeq(s, c, Topic2End(s, c))] :
            c \in {x \in Topic2Starts(s, m[3]) : Topic2At(s, x)}})

\* String.prototype.match: found = FALSE stands for null
match(s) ==
  TheOne({IF M = {} THEN [found |-> FALSE]
          ELSE TheOne({Groups(s, m) : m \in {FirstMatch(M)}}) :
            M \in {AllMatches(s)}})

\* extractFileTopics returning the topics in the letter case of the question
extractFileTopicsCased(q) ==
  IF q.type /= "string" THEN [kind |-> "TypeError"]
  ELSE LET m == match(q.chars)
       IN IF m.found
          THEN [kind |-> "topics", topic1 |-> m.group3, topic2 |-> m.group7]
          ELSE [kind |-> "null"]

\* extractFileTopics(question): kind "TypeError" is the exception thrown by
\* question.match when question is undefined, kind "null" the return of null
extractFileTopics(q) ==
  IF q.type /= "string" THEN [kind |-> "TypeError"]
  ELSE LET m == match(q.chars)
       IN IF m.found
          THEN [kind |-> "topics", topic1 |-> toLowerCase(m.group3),
                topic2 |-> toLowerCase(m.group7)]
          ELSE [kind |-> "null"]

(***************************************************************************)
(* Inputs: the questions, the uploaded files and the answers of the        *)
(* collaborators that the requests are drawn from.                         *)
(***************************************************************************)
QPlain == Str(<<"W","h","y","?">>)
QFirst == Str(<<"t","h","e"," ","F","i","r","s","t"," ","F","i","l","e">>)
QSecond == Str(<<"s","e","c","o","n","d"," ","f","i","l","e","?">>)
QBoth == Str(<<"B","o","t","h"," ","F","i","l","e","s">>)
QFirstBoth == Str(<<"f","i","r","s","t"," ","f","i","l","e",","," ","b","o","t","h"," ","f","i","l","e","s">>)
QBothSecond == Str(<<"b","o","t","h"," ","f","i","l","e","s",","," ","s","e","c","o","n","d"," ","f","i","l","e">>)
QCompare == Str(<<"C","o","m","p","a","r","e"," ","t","h","e"," ","f","i","l","e"," ","a","b","o","u","t"," ","B","l","o","c","k","c","h","a","i","n"," ","a","n","d"," ","t","h","e"," ","f","i","l","e"," ","a","b","o","u","t"," ","A","I">>)
QCompareWith == Str(<<"c","o","m","p","a","r","e"," ","f","i","l","e"," ","w","i","t","h"," ","a","i"," ","w","i","t","h"," ","f","i","l","e"," ","w","i","t","h"," ","b","l","o","c","k","c","h","a","i","n">>)
QCompareFirst == Str(<<"c","o","m","p","a","r","e"," ","f","i","l","e"," ","a","b","o","u","t"," ","a","i"," ","a","n","d"," ","f","i","l","e"," ","a","b","o","u","t"," ","f","i","r","s","t"," ","f","i","l","e">>)
QCompareSecondBoth == Str(<<"c","o","m","p","a","r","e"," ","f","i","l","e"," ","a","b","o","u","t"," ","a","i"," ","a","n","d"," ","f","i","l","e"," ","a","b","o","u","t"," ","s","e","c","o","n","d"," ","f","i","l","e",","," ","b","o","t","h"," ","f","i","l","e","s">>)

Questions ==
  {QPlain, QFirst, QSecond, QBoth, QFirstBoth, QBothSecond, QCompare,
   QCompareWith, QCompareFirst, QCompareSecondBoth}

\* req.body.question: a string, or undefined when the field is absent
QuestionValues == Questions \cup {Undefined}

\* req.file as multer delivers it; text is what reading (and, for a PDF,
\* parsing) the stored upload yields
FileTxt == [type |-> "object", mimetype |-> "text/plain", text |-> <<"a","l","p","h","a">>]
FilePdf == [type |-> "object", mimetype |-> "application/pdf", text |-> <<"b","e","t","a">>]
Files == {FileTxt, FilePdf}
FileValues == Files \cup {Undefined}

\* completion.choices[0].message.content of the topic request: the answers
\* the service may give for the text of each file
RawTopics(text) ==
  IF text = FileTxt.text
  THEN {<<"A","I"," ","E","t","h","i","c","s">>, <<" ","a","i"," ","e","t","h","i","c","s","\n">>}
  ELSE {<<" ","I","n","t","r","o","d","u","c","t","i","o","n"," ","t","o"," ","B","l","o","c","k","c","h","a","i","n"," ","T","e","c","h","n","o","l","o","g","y","\n">>,
        <<"i","n","t","r","o","d","u","c","t","i","o","n"," ","t","o"," ","b","l","o","c","k","c","h","a","i","n"," ","t","e","c","h","n","o","l","o","g","y">>}

\* the requests of a run in which the server handles one request at a time
OneRequest == {1}
\* the requests of a run in which two requests are in flight at once
Requests == {1, 2}

\* the inputs of the runs with two requests in flight: the first client
\* sends PDF files, the second text files
ConcQuestionValues == {QPlain, QSecond, QBoth, QCompare}
ConcQuestions(r) == IF r = 1 THEN ConcQuestionValues ELSE {QPlain, QBoth}
ConcFiles(r) == IF r = 1 THEN {FilePdf} ELSE {FileTxt}

\* line 82 for each question a request may carry
fileTopicsOf == [q \in QuestionValues |-> extractFileTopics(q)]

(***************************************************************************)
(* State.                                                                  *)
(***************************************************************************)
VARIABLES
  fileCache,     \* the module-level array of {context, content} objects
  activeFile,    \* null, undefined or one of the objects
  compareMode,   \* the module-level flag
  pc,            \* where each request's handler is suspended
  question,      \* the handler's const question
  file,          \* the handler's const file
  fileContent,   \* the handler's let fileContent
  res,           \* the response sent for the request
  arrivals       \* the requests being handled, in the order they arrived

vars ==
  <<fileCache, activeFile, compareMode, pc, question, file, fileContent, res, arrivals>>

NoResponse == [status |-> 0, body |-> "none"]
\* res.json({ answer: assistantMessage })
Answer == [status |-> 200, body |-> "answer"]
\* res.status(400).json({ error: 'One or both files are not available for comparison.' })
ComparisonUnavailable == [status |-> 400, body |-> "error"]
\* res.status(500).json({ error: 'Error processing the request' })
ProcessingFailure == [status |-> 500, body |-> "error"]

Init ==
  /\ fileCache = << >>
  /\ activeFile = Null
  /\ compareMode = FALSE
  /\ pc = [r \in Requests |-> "idle"]
  /\ question = [r \in Requests |-> Undefined]
  /\ file = [r \in Requests |-> Undefined]
  /\ fileContent = [r \in Requests |-> << >>]
  /\ res = [r \in Requests |-> NoResponse]
  /\ arrivals = << >>

(***************************************************************************)
(* The synchronous parts of the handler.                                   *)
(***************************************************************************)
\* the requests being handled once request r has reached pc'[r]: r leaves
\* when its response is sent, and joins behind the others when it arrives
Handled(r) ==
  LET others == SelectSeq(arrivals, LAMBDA a : a /= r)
  IN IF pc'[r] = "done" THEN others
     ELSE IF pc[r] \in {"idle", "done"} THEN Append(others, r)
     ELSE arrivals

\* determineFileContext: what it returns when the service answered raw
determineFileContext(raw) == toLowerCase(trim(raw))

\* the object literal { context: fileContext, content: fileContent }; ref is
\* the identity of the object, its allocation number
NewFile(cache, fileContext, content) ==
  [type |-> "object", ref |-> Len(cache) + 1, context |-> fileContext, content |-> content]

\* the new object put in front of the array (unshift for push)
IngestUnshift(cache, fileContext, content) ==
  LET added == <<NewFile(cache, fileContext, content)>> \o cache
  IN [fileCache |-> added, activeFile |-> added[1]]

\* the active file set to a second object literal, not to the pushed one
IngestCopy(cache, fileContext, content) ==
  LET pushed == Append(cache, NewFile(cache, fileContext, content))
  IN [fileCache |-> pushed, activeFile |-> NewFile(pushed, fileContext, content)]

\* the push without the assignment of the active file
IngestKeepsActive(cache, fileContext, content) ==
  LET pushed == Append(cache, NewFile(cache, fileContext, content))
  IN [fileCache |-> pushed, activeFile |-> activeFile]

\* lines 77-78: fileCache.push(...); activeFile = fileCache[fileCache.length - 1]
Ingest(cache, fileContext, content) ==
  LET pushed == Append(cache, NewFile(cache, fileContext, content))
  IN [fileCache |-> pushed, activeFile |-> pushed[Len(pushed)]]

\* fileCache[i], counting from 0 as the code does
At(cache, i) == IF i >= 0 /\ i < Len(cache) THEN cache[i + 1] ELSE Undefined

\* Array.prototype.find with the predicate file.context.includes(topic)
RECURSIVE find(_, _)
find(cache, topic) ==
  IF cache = << >> THEN Undefined
  ELSE IF includes(Head(cache).context, topic) THEN Head(cache)
  ELSE find(Tail(cache), topic)

\* truthiness of a value in a condition
Truthy(v) ==
  CASE v.type = "string" -> v.chars /= << >>
    [] v.type = "object" -> TRUE
    [] OTHER -> FALSE

\* question && question.toLowerCase().includes(phrase)
Mentions(q, phrase) ==
  Truthy(q) /\ q.type = "string" /\ includes(toLowerCase(q.chars), phrase)

FIRST_FILE == <<"f","i","r","s","t"," ","f","i","l","e">>
SECOND_FILE == <<"s","e","c","o","n","d"," ","f","i","l","e">>
BOTH_FILES == <<"b","o","t","h"," ","f","i","l","e","s">>

\* the text of line 90 with the two found files exchanged
ComparisonTextSwapped(foundFile1, foundFile2) ==
  <<"C","o","m","p","a","r","i","s","o","n"," ","b","e","t","w","e","e","n"," ","f","i","l","e","s"," ","a","b","o","u","t"," ">> \o foundFile2.context \o <<" ","a","n","d"," ">> \o
  foundFile1.context \o <<":","\n","\n","F","i","l","e"," ","1"," ","(">> \o foundFile2.context \o <<")",":","\n">> \o
  foundFile2.content \o <<"\n","\n","F","i","l","e"," ","2"," ","(">> \o foundFile1.context \o <<")",":","\n">> \o
  foundFile1.content

\* the template literal of line 90
ComparisonText(foundFile1, foundFile2) ==
  <<"C","o","m","p","a","r","i","s","o","n"," ","b","e","t","w","e","e","n"," ","f","i","l","e","s"," ","a","b","o","u","t"," ">> \o foundFile1.context \o <<" ","a","n","d"," ">> \o
  foundFile2.context \o <<":","\n","\n","F","i","l","e"," ","1"," ","(">> \o foundFile1.context \o <<")",":","\n">> \o
  foundFile1.content \o <<"\n","\n","F","i","l","e"," ","2"," ","(">> \o foundFile2.context \o <<")",":","\n">> \o
  foundFile2.content

\* the template literal of line 114
BothFilesText(firstFileContent, secondFileContent) ==
  <<"B","o","t","h"," ","F","i","l","e","s",":","\n","\n","F","i","r","s","t"," ","F","i","l","e",":","\n">> \o firstFileContent \o
  <<"\n","\n","S","e","c","o","n","d"," ","F","i","l","e",":","\n">> \o secondFileContent

\* ${question} in a template literal
TemplateValue(v) == IF v.type = "string" THEN v.chars ELSE <<"u","n","d","e","f","i","n","e","d">>

\* the text of line 119 without the question
GeneralQuestionTextEmpty(q) == <<"G","e","n","e","r","a","l"," ","Q","u","e","s","t","i","o","n",":","\n","\n">>

\* the template literal of line 119
GeneralQuestionText(q) == <<"G","e","n","e","r","a","l"," ","Q","u","e","s","t","i","o","n",":","\n","\n">> \o TemplateValue(q)

\* the switch with "first file" leaving compareMode as it is
SwitchKeepsCompare(q, cache, active, cmp) ==
  LET firstFile == At(cache, 0)
      secondFile == At(cache, 1)
  IN IF Mentions(q, FIRST_FILE) THEN [activeFile |-> firstFile, compareMode |-> cmp]
     ELSE IF Mentions(q, SECOND_FILE) THEN [activeFile |-> secondFile, compareMode |-> FALSE]
     ELSE IF Mentions(q, BOTH_FILES) THEN [activeFile |-> active, compareMode |-> TRUE]
     ELSE [activeFile |-> active, compareMode |-> cmp]

\* the switch with "both files" making the first file the active one
SwitchBothSelectsFirst(q, cache, active, cmp) ==
  LET firstFile == At(cache, 0)
      secondFile == At(cache, 1)
  IN IF Mentions(q, FIRST_FILE) THEN [activeFile |-> firstFile, compareMode |-> FALSE]
     ELSE IF Mentions(q, SECOND_FILE) THEN [activeFile |-> secondFile, compareMode |-> FALSE]
     ELSE IF Mentions(q, BOTH_FILES) THEN [activeFile |-> firstFile, compareMode |-> TRUE]
     ELSE [activeFile |-> active, compareMode |-> cmp]

\* the switch testing "both files" before the other phrases
SwitchBothFirst(q, cache, active, cmp) ==
  LET firstFile == At(cache, 0)
      secondFile == At(cache, 1)
  IN IF Mentions(q, BOTH_FILES) THEN [activeFile |-> active, compareMode |-> TRUE]
     ELSE IF Mentions(q, FIRST_FILE) THEN [activeFile |-> firstFile, compareMode |-> FALSE]
     ELSE IF Mentions(q, SECOND_FILE) THEN [activeFile |-> secondFile, compareMode |-> FALSE]
     ELSE [activeFile |-> active, compareMode |-> cmp]

\* the switch leaving compare mode on a question without a switch phrase
SwitchPlainResets(q, cache, active, cmp) ==
  LET firstFile == At(cache, 0)
      secondFile == At(cache, 1)
  IN IF Mentions(q, FIRST_FILE) THEN [activeFile |-> firstFile, compareMode |-> FALSE]
     ELSE IF Mentions(q, SECOND_FILE) THEN [activeFile |-> secondFile, compareMode |-> FALSE]
     ELSE IF Mentions(q, BOTH_FILES) THEN [activeFile |-> active, compareMode |-> TRUE]
     ELSE [activeFile |-> active, compareMode |-> FALSE]

\* lines 96-108: the explicit switch
Switch(q, cache, active, cmp) ==
  LET firstFile == At(cache, 0)
      secondFile == At(cache, 1)
  IN IF Mentions(q, FIRST_FILE) THEN [activeFile |-> firstFile, compareMode |-> FALSE]
     ELSE IF Mentions(q, SECOND_FILE) THEN [activeFile |-> secondFile, compareMode |-> FALSE]
     ELSE IF Mentions(q, BOTH_FILES) THEN [activeFile |-> active, compareMode |-> TRUE]
     ELSE [activeFile |-> active, compareMode |-> cmp]

\* the materialization taking the two latest files in compare mode
MaterializeLastTwo(q, f, cache, active, cmp) ==
  IF cmp /\ Len(cache) >= 2
  THEN [kind |-> "text",
        text |-> BothFilesText(At(cache, Len(cache) - 2).content,
                               At(cache, Len(cache) - 1).content)]
  ELSE IF Truthy(active) THEN [kind |-> "text", text |-> active.content]
  ELSE IF ~Truthy(f) /\ Len(cache) = 0
  THEN [kind |-> "text", text |-> GeneralQuestionText(q)]
  ELSE LET latestFile == At(cache, Len(cache) - 1)
       IN IF latestFile.type = "object"
          THEN [kind |-> "text", text |-> latestFile.content]
          ELSE [kind |-> "TypeError"]

\* the materialization without the general-question branch
MaterializeNoGeneral(q, f, cache, active, cmp) ==
  IF cmp /\ Len(cache) >= 2
  THEN [kind |-> "text", text |-> BothFilesText(At(cache, 0).content, At(cache, 1).content)]
  ELSE IF Truthy(active) THEN [kind |-> "text", text |-> active.content]
  ELSE LET latestFile == At(cache, Len(cache) - 1)
       IN IF latestFile.type = "object"
          THEN [kind |-> "text", text |-> latestFile.content]
          ELSE [kind |-> "TypeError"]

\* the materialization without the default to the latest file
MaterializeNoLatest(q, f, cache, active, cmp) ==
  IF cmp /\ Len(cache) >= 2
  THEN [kind |-> "text", text |-> BothFilesText(At(cache, 0).content, At(cache, 1).content)]
  ELSE IF Truthy(active) THEN [kind |-> "text", text |-> active.content]
  ELSE [kind |-> "text", text |-> GeneralQuestionText(q)]

\* lines 111-124: the text for the current mode; kind "TypeError" is the
\* exception of reading .content of undefined
Materialize(q, f, cache, active, cmp) ==
  IF cmp /\ Len(cache) >= 2
  THEN [kind |-> "text", text |-> BothFilesText(At(cache, 0).content, At(cache, 1).content)]
  ELSE IF Truthy(active) THEN [kind |-> "text", text |-> active.content]
  ELSE IF ~Truthy(f) /\ Len(cache) = 0
  THEN [kind |-> "text", text |-> GeneralQuestionText(q)]
  ELSE LET latestFile == At(cache, Len(cache) - 1)
       IN IF latestFile.type = "object"
          THEN [kind |-> "text", text |-> latestFile.content]
          ELSE [kind |-> "TypeError"]

\* the comparison that tests the first found file only
CompareFirstOnly(cache, topic1, topic2) ==
  LET foundFile1 == find(cache, topic1)
      foundFile2 == find(cache, topic2)
  IN IF Truthy(foundFile1)
     THEN [kind |-> "text",
           text |-> ComparisonText(foundFile1,
                                   IF Truthy(foundFile2) THEN foundFile2 ELSE foundFile1)]
     ELSE [kind |-> "status400"]

\* lines 84-93: the comparison by topic; kind "status400" is the return
\* of line 92
Compare(cache, topic1, topic2) ==
  LET foundFile1 == find(cache, topic1)
      foundFile2 == find(cache, topic2)
  IN IF Truthy(foundFile1) /\ Truthy(foundFile2)
     THEN [kind |-> "text", text |-> ComparisonText(foundFile1, foundFile2)]
     ELSE [kind |-> "status400"]

\* the resolution with the explicit switch applied before the comparison
ResolveSwitchFirst(q, f, cache, active, cmp, fc) ==
  LET fileTopics == fileTopicsOf[q]
      sw == IF fileTopics.kind = "TypeError"
            THEN [activeFile |-> active, compareMode |-> cmp]
            ELSE Switch(q, cache, active, cmp)
      same == [fileContent |-> fc, activeFile |-> sw.activeFile,
               compareMode |-> sw.compareMode]
  IN IF fileTopics.kind = "TypeError" THEN [kind |-> "throw"] @@ same
     ELSE IF fileTopics.kind = "topics"
     THEN LET c == Compare(cache, fileTopics.topic1, fileTopics.topic2)
          IN IF c.kind = "text"
             THEN [kind |-> "context", fileContent |-> c.text,
                   activeFile |-> sw.activeFile, compareMode |-> sw.compareMode]
             ELSE [kind |-> "status400"] @@ same
     ELSE LET m == Materialize(q, f, cache, sw.activeFile, sw.compareMode)
          IN IF m.kind = "text"
             THEN [kind |-> "context", fileContent |-> m.text,
                   activeFile |-> sw.activeFile, compareMode |-> sw.compareMode]
             ELSE [kind |-> "throw"] @@ same

\* lines 82-125 run on the state (cache, active, cmp) with the local fc:
\* kind "context" goes on to the completion call, "status400" returns the
\* comparison error, "throw" enters the catch block
Resolve(q, f, cache, active, cmp, fc) ==
  LET fileTopics == fileTopicsOf[q]
      same == [fileContent |-> fc, activeFile |-> active, compareMode |-> cmp]
  IN IF fileTopics.kind = "TypeError" THEN [kind |-> "throw"] @@ same
     ELSE IF fileTopics.kind = "topics"
     THEN LET c == Compare(cache, fileTopics.topic1, fileTopics.topic2)
          IN IF c.kind = "text"
             THEN [kind |-> "context", fileContent |-> c.text,
                   activeFile |-> active, compareMode |-> cmp]
             ELSE [kind |-> "status400"] @@ same
     ELSE LET sw == Switch(q, cache, active, cmp)
              m == Materialize(q, f, cache, sw.activeFile, sw.compareMode)
          IN IF m.kind = "text"
             THEN [kind |-> "context", fileContent |-> m.text,
                   activeFile |-> sw.activeFile, compareMode |-> sw.compareMode]
             ELSE [kind |-> "throw", fileContent |-> fc,
                   activeFile |-> sw.activeFile, compareMode |-> sw.compareMode]

\* the handler going on to the completion call after the comparison error
\* (line 92 without its return)
ResolveAndCallNoReturn(r, q, f, cache, active, fc) ==
  LET out == Resolve(q, f, cache, active, compareMode, fc)
  IN /\ fileCache' = cache
     /\ activeFile' = out.activeFile
     /\ compareMode' = out.compareMode
     /\ question' = [question EXCEPT ![r] = q]
     /\ file' = [file EXCEPT ![r] = f]
     /\ fileContent' = [fileContent EXCEPT ![r] = out.fileContent]
     /\ pc' = [pc EXCEPT ![r] = IF out.kind = "throw" THEN "done" ELSE "completion"]
     /\ res' = [res EXCEPT ![r] = CASE out.kind = "context" -> NoResponse
                                    [] out.kind = "status400" -> ComparisonUnavailable
                                    [] OTHER -> ProcessingFailure]
     /\ arrivals' = Handled(r)

\* the handler of request r runs lines 82-136 on the store cache with the
\* active file active, up to its response or to the await of line 133
ResolveAndCall(r, q, f, cache, active, fc) ==
  LET out == Resolve(q, f, cache, active, compareMode, fc)
  IN /\ fileCache' = cache
     /\ activeFile' = out.activeFile
     /\ compareMode' = out.compareMode
     /\ question' = [question EXCEPT ![r] = q]
     /\ file' = [file EXCEPT ![r] = f]
     /\ fileContent' = [fileContent EXCEPT ![r] = out.fileContent]
     /\ pc' = [pc EXCEPT ![r] = IF out.kind = "context" THEN "completion" ELSE "done"]
     /\ res' = [res EXCEPT ![r] = CASE out.kind = "context" -> NoResponse
                                    [] out.kind = "status400" -> ComparisonUnavailable
                                    [] OTHER -> ProcessingFailure]
     /\ arrivals' = Handled(r)

\* the catch block answering with the status of the comparison error
CatchBadRequest(r) ==
  /\ pc' = [pc EXCEPT ![r] = "done"]
  /\ res' = [res EXCEPT ![r] = ComparisonUnavailable]
  /\ arrivals' = Handled(r)

\* the catch block of lines 141-143
Catch(r) ==
  /\ pc' = [pc EXCEPT ![r] = "done"]
  /\ res' = [res EXCEPT ![r] = ProcessingFailure]
  /\ arrivals' = Handled(r)

(***************************************************************************)
(* Actions: the handler from one suspension point to the next.             *)
(***************************************************************************)
\* uploads that may still reach the push of line 77
PendingUploads == Cardinality({r \in Requests : pc[r] \in {"pdfParse", "inferTopic"}})

\* a request without a file: lines 58-136 run without suspension
ReceiveQuestion(r, Qs) ==
  /\ pc[r] \in {"idle", "done"}
  /\ \E q \in Qs :
       ResolveAndCall(r, q, Undefined, fileCache, activeFile, << >>)

\* a request with a file: lines 58-74, up to the await of pdfParse or of
\* the topic request
ReceiveUpload(r, Qs, Fs) ==
  /\ pc[r] \in {"idle", "done"}
  /\ Len(fileCache) + PendingUploads < MaxDocs
  /\ \E q \in Qs, f \in Fs :
       /\ question' = [question EXCEPT ![r] = q]
       /\ file' = [file EXCEPT ![r] = f]
       /\ res' = [res EXCEPT ![r] = NoResponse]
       /\ IF f.mimetype = "application/pdf"
          THEN /\ pc' = [pc EXCEPT ![r] = "pdfParse"]
               /\ fileContent' = [fileContent EXCEPT ![r] = << >>]
          ELSE /\ pc' = [pc EXCEPT ![r] = "inferTopic"]
               /\ fileContent' = [fileContent EXCEPT ![r] = f.text]
  /\ arrivals' = Handled(r)
  /\ UNCHANGED <<fileCache, activeFile, compareMode>>

\* a request with a file that fs.readFileSync cannot read
ReceiveUnreadable(r, Qs, Fs) ==
  /\ pc[r] \in {"idle", "done"}
  /\ \E q \in Qs, f \in Fs :
       /\ question' = [question EXCEPT ![r] = q]
       /\ file' = [file EXCEPT ![r] = f]
       /\ fileContent' = [fileContent EXCEPT ![r] = << >>]
  /\ Catch(r)
  /\ UNCHANGED <<fileCache, activeFile, compareMode>>

\* pdfParse resolves: lines 68 and 74, up to the await of the topic request
PdfParsed(r) ==
  /\ pc[r] = "pdfParse"
  /\ pc' = [pc EXCEPT ![r] = "inferTopic"]
  /\ fileContent' = [fileContent EXCEPT ![r] = file[r].text]
  /\ UNCHANGED <<fileCache, activeFile, compareMode, question, file, res, arrivals>>

\* pdfParse rejects
PdfParseFailed(r) ==
  /\ pc[r] = "pdfParse"
  /\ Catch(r)
  /\ UNCHANGED <<fileCache, activeFile, compareMode, question, file, fileContent>>

\* the topic request resolves: lines 53-54 and 74-136
TopicInferred(r) ==
  /\ pc[r] = "inferTopic"
  /\ \E raw \in RawTopics(fileContent[r]) :
       LET fileContext == determineFileContext(raw)
           in == Ingest(fileCache, fileContext, fileContent[r])
       IN ResolveAndCall(r, question[r], file[r], in.fileCache, in.activeFile,
                         fileContent[r])

\* the topic request rejects after the file was pushed without a topic
TopicInferenceFailedAfterPush(r) ==
  /\ pc[r] = "inferTopic"
  /\ Catch(r)
  /\ fileCache' = Append(fileCache, NewFile(fileCache, << >>, fileContent[r]))
  /\ activeFile' = fileCache'[Len(fileCache')]
  /\ UNCHANGED <<compareMode, question, file, fileContent>>

\* the topic request rejects
TopicInferenceFailed(r) ==
  /\ pc[r] = "inferTopic"
  /\ Catch(r)
  /\ UNCHANGED <<fileCache, activeFile, compareMode, question, file, fileContent>>

\* the completion call resolves: lines 138-140
CompletionReturned(r) ==
  /\ pc[r] = "completion"
  /\ pc' = [pc EXCEPT ![r] = "done"]
  /\ res' = [res EXCEPT ![r] = Answer]
  /\ arrivals' = Handled(r)
  /\ UNCHANGED <<fileCache, activeFile, compareMode, question, file, fileContent>>

\* the completion call rejects
CompletionFailed(r) ==
  /\ pc[r] = "completion"
  /\ Catch(r)
  /\ UNCHANGED <<fileCache, activeFile, compareMode, question, file, fileContent>>

\* one request at a time, drawn from all the inputs
Next ==
  \E r \in OneRequest :
    \/ ReceiveQuestion(r, QuestionValues)
    \/ ReceiveUpload(r, QuestionValues, Files)
    \/ ReceiveUnreadable(r, QuestionValues, Files)
    \/ PdfParsed(r)
    \/ PdfParseFailed(r)
    \/ TopicInferred(r)
    \/ TopicInferenceFailed(r)
    \/ CompletionReturned(r)
    \/ CompletionFailed(r)

Spec == Init /\ [][Next]_vars

\* two requests in flight, interleaved at the suspension points
ConcNext ==
  \E r \in Requests :
    \/ ReceiveQuestion(r, ConcQuestions(r))
    \/ ReceiveUpload(r, ConcQuestions(r), ConcFiles(r))
    \/ ReceiveUnreadable(r, ConcQuestions(r), ConcFiles(r))
    \/ PdfParsed(r)
    \/ PdfParseFailed(r)
    \/ TopicInferred(r)
    \/ TopicInferenceFailed(r)
    \/ CompletionReturned(r)
    \/ CompletionFailed(r)

ConcSpec == Init /\ [][ConcNext]_vars

\* a collaborator call of request r settles: the promise awaited at line
\* 67, 74 or 133 resolves or rejects
Settles(r) ==
  \/ PdfParseFailed(r) \/ PdfParsed(r)
  \/ TopicInferenceFailed(r) \/ TopicInferred(r)
  \/ CompletionFailed(r) \/ CompletionReturned(r)

\* two requests in flight, every awaited call settling eventually
FairSpec == ConcSpec /\ \A r \in Requests : WF_vars(Settles(r))

(***************************************************************************)
(* Vocabulary of the properties.                                           *)
(***************************************************************************)
IsString(q) == q.type = "string"

\* the match of the regular expression on each question
matchOf == [q \in Questions |-> match(q.chars)]

\* the question matches the compare-by-topic pattern
ComparePattern(q) == IsString(q) /\ matchOf[q].found

\* the two topic fragments as the question spells them
Fragment1(q) == matchOf[q].group3
Fragment2(q) == matchOf[q].group7

\* the index of the earliest stored document whose topic contains the
\* fragment in lower case, 0 when there is none
Earliest(cache, fragment) ==
  LET hits == {i \in 1..Len(cache) : includes(cache[i].context, toLowerCase(fragment))}
  IN IF hits = {} THEN 0 ELSE CHOOSE i \in hits : \A j \in hits : i <= j

\* the question carries no switch phrase
NoSwitchPhrase(q) ==
  /\ IsString(q)
  /\ ~includes(toLowerCase(q.chars), FIRST_FILE)
  /\ ~includes(toLowerCase(q.chars), SECOND_FILE)
  /\ ~includes(toLowerCase(q.chars), BOTH_FILES)

HasPhrase(q, phrase) == IsString(q) /\ includes(toLowerCase(q.chars), phrase)

\* a plain question: no switch phrase, no compare pattern
PlainQuestion(q) == NoSwitchPhrase(q) /\ ~ComparePattern(q)

\* the step in which request r runs the resolution of lines 82-125; the
\* question and the file it resolves with are question'[r] and file'[r], the
\* store it reads is fileCache'
ResolutionStep(r) ==
  \/ question'[r] \in QuestionValues /\ ReceiveQuestion(r, {question'[r]})
  \/ TopicInferred(r)

\* the resolution of r handed a context to the completion call
HandsContext(r) == pc'[r] = "completion" /\ res'[r] = NoResponse

\* text presents d1 as File 1 and then d2 as File 2, each with its topic and
\* its full content
PresentsInOrder(text, d1, d2) ==
  includes(text, <<"F","i","l","e"," ","1"," ","(">> \o d1.context \o <<")",":","\n">> \o d1.content \o
                 <<"\n","\n","F","i","l","e"," ","2"," ","(">> \o d2.context \o <<")",":","\n">> \o d2.content)

IsPrefix(s, t) == Len(s) <= Len(t) /\ SubSeq(t, 1, Len(s)) = s

(***************************************************************************)
(* C1: when a question matches the compare pattern and both topics resolve *)
(* to stored documents, the context handed to the completion call contains *)
(* the topic and the full content of both documents, the document resolved *)
(* for the first topic of the question as File 1 and the one resolved for  *)
(* the second topic as File 2.                                             *)
(***************************************************************************)
C1_BothResolve(r) ==
  /\ ComparePattern(question'[r])
  /\ ResolutionStep(r)
  /\ Earliest(fileCache', Fragment1(question'[r])) /= 0
  /\ Earliest(fileCache', Fragment2(question'[r])) /= 0

C1_ComparisonInQuestionOrder ==
  [][\A r \in Requests :
       C1_BothResolve(r) =>
         LET i1 == Earliest(fileCache', Fragment1(question'[r]))
             i2 == Earliest(fileCache', Fragment2(question'[r]))
         IN /\ HandsContext(r)
            /\ PresentsInOrder(fileContent'[r], fileCache'[i1], fileCache'[i2])]_vars

\* C1 as stated: the document at the lower store index is presented first
C1_ComparisonInStoredOrder ==
  [][\A r \in Requests :
       C1_BothResolve(r) =>
         LET i1 == Earliest(fileCache', Fragment1(question'[r]))
             i2 == Earliest(fileCache', Fragment2(question'[r]))
             lo == IF i1 <= i2 THEN i1 ELSE i2
             hi == IF i1 <= i2 THEN i2 ELSE i1
         IN /\ HandsContext(r)
            /\ PresentsInOrder(fileContent'[r], fileCache'[lo], fileCache'[hi])]_vars

\* a comparison was handed over whose File 1 is stored after its File 2
C1_Witness ==
  \E r \in Requests :
    /\ pc[r] = "completion"
    /\ ComparePattern(question[r])
    /\ LET i1 == Earliest(fileCache, Fragment1(question[r]))
           i2 == Earliest(fileCache, Fragment2(question[r]))
       IN /\ i2 > 0 /\ i1 > i2
          /\ PresentsInOrder(fileContent[r], fileCache[i1], fileCache[i2])

(***************************************************************************)
(* C2: when a question matches the compare pattern and one of its topics   *)
(* resolves to no stored document, the request ends with the               *)
(* ComparisonUnavailable response and makes no completion call, with or    *)
(* without an uploaded file.                                               *)
(***************************************************************************)
C2_ComparisonUnavailable ==
  [][\A r \in Requests :
       ( /\ ComparePattern(question'[r])
         /\ ResolutionStep(r)
         /\ \/ Earliest(fileCache', Fragment1(question'[r])) = 0
            \/ Earliest(fileCache', Fragment2(question'[r])) = 0 )
       => /\ res'[r] = ComparisonUnavailable
          /\ pc'[r] = "done"]_vars

\* a request that uploaded a file ended with the comparison error although
\* one of its topics is stored
C2_Witness ==
  \E r \in Requests :
    /\ res[r] = ComparisonUnavailable
    /\ pc[r] = "done"
    /\ file[r] /= Undefined
    /\ ComparePattern(question[r])
    /\ Earliest(fileCache, Fragment2(question[r])) /= 0
    /\ Earliest(fileCache, Fragment1(question[r])) = 0

(***************************************************************************)
(* C3: a request with a question that does not match the compare pattern,  *)
(* without a file and with the store empty, is handed the question text    *)
(* under the "General Question:" heading as context and does not fail.     *)
(***************************************************************************)
C3_EmptyStore(r) ==
  /\ IsString(question'[r])
  /\ file'[r] = Undefined
  /\ fileCache' = << >>
  /\ ResolutionStep(r)

C3_GeneralQuestion ==
  [][\A r \in Requests :
       (C3_EmptyStore(r) /\ ~ComparePattern(question'[r])) =>
         /\ HandsContext(r)
         /\ fileContent'[r] = <<"G","e","n","e","r","a","l"," ","Q","u","e","s","t","i","o","n",":","\n","\n">> \o question'[r].chars]_vars

\* C3 as stated: for any question text
C3_AnyQuestion ==
  [][\A r \in Requests :
       C3_EmptyStore(r) =>
         /\ HandsContext(r)
         /\ fileContent'[r] = <<"G","e","n","e","r","a","l"," ","Q","u","e","s","t","i","o","n",":","\n","\n">> \o question'[r].chars]_vars

\* the question with a switch phrase went out as a general question
C3_Witness ==
  \E r \in Requests :
    /\ pc[r] = "completion"
    /\ fileCache = << >>
    /\ file[r] = Undefined
    /\ HasPhrase(question[r], FIRST_FILE)
    /\ activeFile = Undefined
    /\ fileContent[r] = <<"G","e","n","e","r","a","l"," ","Q","u","e","s","t","i","o","n",":","\n","\n">> \o question[r].chars

(***************************************************************************)
(* C4: with two or more documents stored, a question that contains "both   *)
(* files", neither "first file" nor "second file", and does not match the  *)
(* compare pattern is handed the block of store elements 0 and 1, labeled  *)
(* First File and Second File, whatever the store holds beyond them and    *)
(* whatever the active file is.                                            *)
(***************************************************************************)
C4_BothBlock(r) ==
  /\ HandsContext(r)
  /\ fileContent'[r] = <<"B","o","t","h"," ","F","i","l","e","s",":","\n","\n","F","i","r","s","t"," ","F","i","l","e",":","\n">> \o fileCache'[1].content \o
                       <<"\n","\n","S","e","c","o","n","d"," ","F","i","l","e",":","\n">> \o fileCache'[2].content

C4_BothFilesAlone ==
  [][\A r \in Requests :
       ( /\ Len(fileCache') >= 2
         /\ HasPhrase(question'[r], BOTH_FILES)
         /\ ~HasPhrase(question'[r], FIRST_FILE)
         /\ ~HasPhrase(question'[r], SECOND_FILE)
         /\ ~ComparePattern(question'[r])
         /\ ResolutionStep(r) )
       => C4_BothBlock(r)]_vars

\* C4 as stated: any question that contains "both files"
C4_BothFilesAnywhere ==
  [][\A r \in Requests :
       ( /\ Len(fileCache') >= 2
         /\ HasPhrase(question'[r], BOTH_FILES)
         /\ ResolutionStep(r) )
       => C4_BothBlock(r)]_vars

\* the block of elements 0 and 1 went out while the store holds three
\* documents and the third is the active one
C4_Witness ==
  \E r \in Requests :
    /\ pc[r] = "completion"
    /\ Len(fileCache) = 3
    /\ activeFile = fileCache[3]
    /\ compareMode
    /\ HasPhrase(question[r], BOTH_FILES)
    /\ fileContent[r] = <<"B","o","t","h"," ","F","i","l","e","s",":","\n","\n","F","i","r","s","t"," ","F","i","l","e",":","\n">> \o fileCache[1].content \o
                        <<"\n","\n","S","e","c","o","n","d"," ","F","i","l","e",":","\n">> \o fileCache[2].content

(***************************************************************************)
(* C5: with three documents stored, a question that contains "first file"  *)
(* and does not match the compare pattern makes store element 0 the active *)
(* file and clears compare mode; when that request has been answered, the  *)
(* next request, plain and without a file, is handed the content of        *)
(* element 0.                                                              *)
(***************************************************************************)
FirstFileQuestion(q) == HasPhrase(q, FIRST_FILE) /\ ~ComparePattern(q)

C5_NextPlain(r) ==
  /\ pc[r] = "done"
  /\ res[r] = Answer
  /\ FirstFileQuestion(question[r])
  /\ Len(fileCache) >= 3
  /\ PlainQuestion(question'[r])
  /\ ReceiveQuestion(r, {question'[r]})

C5_FirstFileThenPlain ==
  [][\A r \in OneRequest :
       /\ ( /\ Len(fileCache') >= 3
            /\ FirstFileQuestion(question'[r])
            /\ ResolutionStep(r) )
          => (activeFile' = fileCache'[1] /\ ~compareMode')
       /\ C5_NextPlain(r)
          => (HandsContext(r) /\ fileContent'[r] = fileCache[1].content)]_vars

\* C5 as stated: any question that contains "first file"
C5_FirstFileAnywhere ==
  [][\A r \in OneRequest :
       /\ ( /\ Len(fileCache') >= 3
            /\ HasPhrase(question'[r], FIRST_FILE)
            /\ ResolutionStep(r) )
          => (activeFile' = fileCache'[1] /\ ~compareMode')
       /\ ( /\ pc[r] = "done"
            /\ res[r] = Answer
            /\ HasPhrase(question[r], FIRST_FILE)
            /\ Len(fileCache) >= 3
            /\ PlainQuestion(question'[r])
            /\ ReceiveQuestion(r, {question'[r]}) )
          => (HandsContext(r) /\ fileContent'[r] = fileCache[1].content)]_vars

\* a "first file" request that uploaded the third document was answered with
\* element 0 as its context
C5_Witness ==
  \E r \in OneRequest :
    /\ pc[r] = "done"
    /\ res[r] = Answer
    /\ FirstFileQuestion(question[r])
    /\ file[r] /= Undefined
    /\ Len(fileCache) = 3
    /\ activeFile = fileCache[1]
    /\ ~compareMode
    /\ fileContent[r] = fileCache[1].content

(***************************************************************************)
(* C6: an ingest appends the new document as the last element of the store *)
(* and makes it the active file, whatever the state; the length grows by   *)
(* one and the elements stored before keep position, topic and content.    *)
(* The active file differs from it after the step only when the request's  *)
(* own question then switches it.  No step ever changes or removes a       *)
(* stored element.                                                         *)
(***************************************************************************)
C6_IngestAppends ==
  [][/\ IsPrefix(fileCache, fileCache')
     /\ \A r \in Requests :
          TopicInferred(r) =>
            /\ Len(fileCache') = Len(fileCache) + 1
            /\ fileCache'[Len(fileCache')].content = fileContent[r]
            /\ \E raw \in RawTopics(fileContent[r]) :
                 LET in == Ingest(fileCache, determineFileContext(raw), fileContent[r])
                 IN /\ fileCache' = in.fileCache
                    /\ IsPrefix(fileCache, in.fileCache)
                    /\ in.activeFile = in.fileCache[Len(fileCache) + 1]
                    /\ \/ activeFile' = in.activeFile
                       \/ /\ ~ComparePattern(question[r])
                          /\ \/ HasPhrase(question[r], FIRST_FILE)
                             \/ HasPhrase(question[r], SECOND_FILE)]_vars

\* the third upload became the active file although another file was active
\* and compare mode was on
C6_Witness ==
  \E r \in Requests :
    /\ pc[r] = "completion"
    /\ file[r] /= Undefined
    /\ NoSwitchPhrase(question[r])
    /\ compareMode
    /\ Len(fileCache) = 3
    /\ activeFile = fileCache[3]
    /\ fileCache[3].content = file[r].text

(***************************************************************************)
(* C7: the lookup of a compared topic is by substring and ignores case:    *)
(* each fragment of the question, lowercased, resolves to the earliest     *)
(* stored document whose (lowercased) topic contains it, independently of  *)
(* the other fragment, and the comparison is unavailable exactly when a    *)
(* fragment is contained in no stored topic.                               *)
(***************************************************************************)
\* text names d1 as the topic of File 1 and d2 as the topic of File 2
NamesTopics(text, d1, d2) ==
  /\ includes(text, <<"F","i","l","e"," ","1"," ","(">> \o d1.context \o <<")",":","\n">>)
  /\ includes(text, <<"F","i","l","e"," ","2"," ","(">> \o d2.context \o <<")",":","\n">>)

C7_SubstringLookup ==
  [][/\ fileCache' /= fileCache =>
          \A i \in 1..Len(fileCache') :
            fileCache'[i].context = toLowerCase(fileCache'[i].context)
     /\ \A r \in Requests :
          (ComparePattern(question'[r]) /\ ResolutionStep(r)) =>
            LET i1 == Earliest(fileCache', Fragment1(question'[r]))
                i2 == Earliest(fileCache', Fragment2(question'[r]))
            IN IF i1 /= 0 /\ i2 /= 0
               THEN /\ HandsContext(r)
                    /\ NamesTopics(fileContent'[r], fileCache'[i1], fileCache'[i2])
               ELSE res'[r] = ComparisonUnavailable]_vars

\* the fragments "Blockchain" and "AI" of a question resolved to the stored
\* topics "introduction to blockchain technology" and "ai ethics"
C7_Witness ==
  \E r \in Requests :
    /\ pc[r] = "completion"
    /\ ComparePattern(question[r])
    /\ Fragment1(question[r]) = <<"B","l","o","c","k","c","h","a","i","n">>
    /\ Fragment2(question[r]) = <<"A","I">>
    /\ Len(fileCache) >= 2
    /\ fileCache[1].context = <<"a","i"," ","e","t","h","i","c","s">>
    /\ fileCache[2].context = <<"i","n","t","r","o","d","u","c","t","i","o","n"," ","t","o"," ","b","l","o","c","k","c","h","a","i","n"," ","t","e","c","h","n","o","l","o","g","y">>
    /\ includes(fileContent[r], <<"F","i","l","e"," ","1"," ","(","i","n","t","r","o","d","u","c","t","i","o","n"," ","t","o"," ","b","l","o","c","k","c","h","a","i","n"," ","t","e","c","h","n","o","l","o","g","y",")",":","\n">>)
    /\ includes(fileContent[r], <<"F","i","l","e"," ","2"," ","(","a","i"," ","e","t","h","i","c","s",")",":","\n">>)

(***************************************************************************)
(* C8: in every state of every interleaving of requests the active file is *)
(* null, undefined or an element of the store.                             *)
(***************************************************************************)
C8_ActiveInStore ==
  \/ activeFile \in {Null, Undefined}
  \/ \E i \in 1..Len(fileCache) : fileCache[i] = activeFile

\* the second element is active while another upload is in flight
C8_Witness ==
  /\ Len(fileCache) >= 2
  /\ activeFile = fileCache[2]
  /\ \E r \in Requests : pc[r] = "inferTopic"
  /\ \E r \in Requests : pc[r] = "completion" /\ HasPhrase(question[r], SECOND_FILE)

(***************************************************************************)
(* C9: for a question that does not match the compare pattern the          *)
(* resolution hands a context to the completion call in every reachable    *)
(* state; it raises no error and reads no missing document.                *)
(***************************************************************************)
C9_AlwaysContext ==
  [][\A r \in Requests :
       ( /\ IsString(question'[r])
         /\ ~ComparePattern(question'[r])
         /\ ResolutionStep(r) )
       => HandsContext(r)]_vars

\* the fallback to the latest document: "second file" with one document
\* stored left the active file undefined
C9_Witness ==
  \E r \in Requests :
    /\ pc[r] = "completion"
    /\ file[r] = Undefined
    /\ Len(fileCache) = 1
    /\ activeFile = Undefined
    /\ fileContent[r] = fileCache[1].content

(***************************************************************************)
(* C10: the resolution never changes the store (a step changes it only by  *)
(* the append of its own ingest), and it leaves the active file and        *)
(* compare mode as they are after the ingest when the question matches the *)
(* compare pattern, whatever switch phrases it contains and whether the    *)
(* comparison succeeds or not, or when it contains no switch phrase.       *)
(***************************************************************************)
C10_ResolutionFrame ==
  [][\A r \in Requests :
       ResolutionStep(r) =>
         LET uploaded == file'[r] /= Undefined
             activeIn == IF uploaded THEN fileCache'[Len(fileCache')] ELSE activeFile
         IN /\ ~uploaded => fileCache' = fileCache
            /\ uploaded => (Len(fileCache') = Len(fileCache) + 1 /\ IsPrefix(fileCache, fileCache'))
            /\ (ComparePattern(question'[r]) \/ NoSwitchPhrase(question'[r]))
               => (activeFile' = activeIn /\ compareMode' = compareMode)]_vars

\* a compare question containing "first file" failed and left the second
\* element active and compare mode on
C10_Witness ==
  \E r \in Requests :
    /\ pc[r] = "done"
    /\ res[r] = ComparisonUnavailable
    /\ ComparePattern(question[r])
    /\ HasPhrase(question[r], FIRST_FILE)
    /\ Len(fileCache) >= 2
    /\ activeFile = fileCache[2]
    /\ compareMode

(***************************************************************************)
(* C11: a request ends with exactly one of the three responses, the answer *)
(* (200), the comparison error (400) or the processing failure (500), and  *)
(* has none before it ends.  Every exception (the upload cannot be read,   *)
(* pdfParse rejects, the topic request rejects, the completion call        *)
(* rejects, a TypeError in the resolution) ends the request with the       *)
(* processing failure; the comparison error goes out only when a compared  *)
(* topic resolves to no document, the answer only when the completion call *)
(* returned.                                                               *)
(***************************************************************************)
\* request r takes a step in which an exception is thrown
C11_Raises(r) ==
  \/ /\ file'[r] \in Files
     /\ question'[r] \in QuestionValues
     /\ ReceiveUnreadable(r, {question'[r]}, {file'[r]})
  \/ PdfParseFailed(r)
  \/ TopicInferenceFailed(r)
  \/ CompletionFailed(r)
  \/ ~IsString(question'[r]) /\ ResolutionStep(r)

C11_ThreeOutcomes ==
  [][\A r \in Requests :
       /\ pc'[r] = "done" => res'[r] \in {Answer, ComparisonUnavailable, ProcessingFailure}
       /\ pc'[r] /= "done" => res'[r] = NoResponse
       /\ C11_Raises(r) => (pc'[r] = "done" /\ res'[r] = ProcessingFailure)
       /\ (res'[r] = Answer /\ res[r] /= Answer) => CompletionReturned(r)
       /\ (res'[r] = ComparisonUnavailable /\ ResolutionStep(r)) =>
            /\ ComparePattern(question'[r])
            /\ \/ Earliest(fileCache', Fragment1(question'[r])) = 0
               \/ Earliest(fileCache', Fragment2(question'[r])) = 0]_vars

\* the completion call of a comparison rejected: the request that had its
\* comparison text ended with the processing failure
C11_Witness ==
  \E r \in Requests :
    /\ pc[r] = "done"
    /\ res[r] = ProcessingFailure
    /\ ComparePattern(question[r])
    /\ Len(fileCache) >= 2
    /\ PresentsInOrder(fileContent[r], fileCache[2], fileCache[1])

(***************************************************************************)
(* C12: requests in flight share the store, the active file and compare    *)
(* mode without isolation, and a race is reachable.  A request that        *)
(* arrived later can resolve while an earlier one still waits for its      *)
(* ingest; the earlier one then appends its document behind the later      *)
(* one's while the later one is still in flight and takes the active file  *)
(* over.  In the state C12_Witness the later request has a context that    *)
(* differs from the one of the run in order of arrival.                    *)
(***************************************************************************)
\* a arrived before b and both are being handled
Older(a, b) ==
  \E i, j \in 1..Len(arrivals) : i < j /\ arrivals[i] = a /\ arrivals[j] = b

\* the question lets the ingested document stay the active file
KeepsIngested(q) ==
  ComparePattern(q) \/ (~HasPhrase(q, FIRST_FILE) /\ ~HasPhrase(q, SECOND_FILE))

C12_NoIsolation ==
  [][\A a, b \in Requests :
       Older(a, b) =>
         /\ (pc[a] \in {"pdfParse", "inferTopic"} /\ TopicInferred(b)) =>
              /\ pc'[a] = pc[a]
              /\ IsPrefix(fileCache, fileCache')
              /\ Len(fileCache') = Len(fileCache) + 1
              /\ fileCache'[Len(fileCache')].content = fileContent[b]
         /\ (pc[b] = "completion" /\ file[b] /= Undefined /\ TopicInferred(a)) =>
              /\ pc'[b] = pc[b]
              /\ fileContent'[b] = fileContent[b]
              /\ IsPrefix(fileCache, fileCache')
              /\ Len(fileCache') = Len(fileCache) + 1
              /\ fileCache'[Len(fileCache')].content = fileContent[a]
              /\ KeepsIngested(question[a]) =>
                   activeFile' = fileCache'[Len(fileCache')]]_vars

\* the result of request b in the run in which a, then b, each with its
\* upload, are handled one after the other on the store cache0
InArrivalOrder(cache0, cmp0, a, topicA, b, topicB) ==
  LET inA == Ingest(cache0, topicA, file[a].text)
      outA == Resolve(question[a], file[a], inA.fileCache, inA.activeFile, cmp0,
                      file[a].text)
      inB == Ingest(inA.fileCache, topicB, file[b].text)
  IN Resolve(question[b], file[b], inB.fileCache, inB.activeFile, outA.compareMode,
             file[b].text)

\* b arrived after a with a "both files" question and resolved first on the
\* empty store: its context is its own document alone, a's document is
\* stored behind it and is the active file, while the run in order of arrival
\* hands b the block of both documents
C12_Witness ==
  \E a, b \in Requests :
    /\ Older(a, b)
    /\ pc[a] = "completion" /\ pc[b] = "completion"
    /\ file[a] /= Undefined /\ file[b] /= Undefined
    /\ Len(fileCache) = 2
    /\ fileCache[1].content = file[b].text
    /\ fileCache[2].content = file[a].text
    /\ file[a].text /= file[b].text
    /\ activeFile = fileCache[2]
    /\ fileContent[b] = file[b].text
    /\ \A cmp0 \in BOOLEAN :
         LET inOrder == InArrivalOrder(<< >>, cmp0, a, fileCache[2].context,
                                       b, fileCache[1].context)
         IN /\ inOrder.kind = "context"
            /\ inOrder.fileContent = BothFilesText(file[a].text, file[b].text)
            /\ inOrder.fileContent /= fileContent[b]

(***************************************************************************)
(* C13: compare mode is sticky.  It is set only by a question that         *)
(* contains "both files", neither "first file" nor "second file", and does *)
(* not match the compare pattern, and it is cleared only by a question     *)
(* that contains "first file" or "second file" and does not match the      *)
(* compare pattern; no other step changes it.  While it is set and the     *)
(* store holds two or more documents, every question without "first file"  *)
(* and "second file" that does not match the compare pattern is handed the *)
(* block of store elements 0 and 1, also the plain question of a request   *)
(* that has just uploaded a document.                                      *)
(***************************************************************************)
\* the question clears compare mode
ClearsCompare(q) ==
  ~ComparePattern(q) /\ (HasPhrase(q, FIRST_FILE) \/ HasPhrase(q, SECOND_FILE))

\* the question sets compare mode
SetsCompare(q) ==
  /\ ~ComparePattern(q)
  /\ HasPhrase(q, BOTH_FILES)
  /\ ~HasPhrase(q, FIRST_FILE)
  /\ ~HasPhrase(q, SECOND_FILE)

C13_StickyCompareMode ==
  [][/\ (compareMode /\ ~compareMode') =>
          \E r \in Requests : ClearsCompare(question'[r]) /\ ResolutionStep(r)
     /\ (~compareMode /\ compareMode') =>
          \E r \in Requests : SetsCompare(question'[r]) /\ ResolutionStep(r)
     /\ \A r \in Requests :
          ( /\ compareMode
            /\ IsString(question'[r])
            /\ ~ComparePattern(question'[r])
            /\ ~ClearsCompare(question'[r])
            /\ ResolutionStep(r) )
          => /\ compareMode'
             /\ Len(fileCache') >= 2 => C4_BothBlock(r)]_vars

\* compare mode was on when a request uploaded the third document with a
\* plain question; the answer it got rests on the block of elements 0 and 1
C13_Witness ==
  \E r \in Requests :
    /\ pc[r] = "done"
    /\ res[r] = Answer
    /\ file[r] /= Undefined
    /\ PlainQuestion(question[r])
    /\ compareMode
    /\ Len(fileCache) = 3
    /\ fileCache[3].content = file[r].text
    /\ fileContent[r] = BothFilesText(fileCache[1].content, fileCache[2].content)

(***************************************************************************)
(* C14: for a question that does not match the compare pattern the switch  *)
(* phrases are tested in the order "first file", "second file", "both      *)
(* files", ignoring case, and only the first one found takes effect: with  *)
(* "first file" and any other phrase the active file becomes store element *)
(* 0 and compare mode is cleared; with "second file" and "both files" but  *)
(* not "first file" the active file becomes element 1 and compare mode is  *)
(* cleared, not set.                                                       *)
(***************************************************************************)
\* "first file" together with another phrase
FirstAndOther(q) ==
  HasPhrase(q, FIRST_FILE) /\ (HasPhrase(q, SECOND_FILE) \/ HasPhrase(q, BOTH_FILES))

\* "second file" and "both files" without "first file"
SecondAndBoth(q) ==
  HasPhrase(q, SECOND_FILE) /\ HasPhrase(q, BOTH_FILES) /\ ~HasPhrase(q, FIRST_FILE)

C14_PhraseOrder ==
  [][\A r \in Requests :
       (~ComparePattern(question'[r]) /\ ResolutionStep(r)) =>
         /\ HasPhrase(question'[r], FIRST_FILE) =>
              (activeFile' = At(fileCache', 0) /\ ~compareMode')
         /\ (HasPhrase(question'[r], SECOND_FILE) /\ ~HasPhrase(question'[r], FIRST_FILE)) =>
              (activeFile' = At(fileCache', 1) /\ ~compareMode')]_vars

\* C14 as stated, on a store that has the elements 0 and 1: whether or not
\* the question matches the compare pattern
C14_PhraseOrderAnywhere ==
  [][\A r \in Requests :
       (Len(fileCache') >= 2 /\ ResolutionStep(r)) =>
         /\ FirstAndOther(question'[r]) =>
              (activeFile' = At(fileCache', 0) /\ ~compareMode')
         /\ SecondAndBoth(question'[r]) =>
              (activeFile' = At(fileCache', 1) /\ ~compareMode')]_vars

\* "both files, second file" made element 1 of three documents the active
\* file and its content the context, with compare mode off
C14_Witness ==
  \E r \in Requests :
    /\ pc[r] = "completion"
    /\ SecondAndBoth(question[r])
    /\ ~ComparePattern(question[r])
    /\ Len(fileCache) = 3
    /\ activeFile = fileCache[2]
    /\ ~compareMode
    /\ fileContent[r] = fileCache[2].content

(***************************************************************************)
(* C15: a question that does not match the compare pattern and whose       *)
(* effective phrase, "first file" or "second file", asks for a store       *)
(* element that does not exist is a silent no-op.  The request does not    *)
(* fail; with compare mode off before it, its context is the one of a      *)
(* question without a switch phrase (the content of the most recently      *)
(* ingested document, or the question itself under the general heading     *)
(* when the store is empty), compare mode stays off, the document that     *)
(* answers for the active file is the same, and every next question is     *)
(* resolved as it would be had the active file not been touched.           *)
(***************************************************************************)
\* the effective phrase of the question asks for a missing store element
AsksMissing(q, cache) ==
  \/ HasPhrase(q, FIRST_FILE) /\ Len(cache) < 1
  \/ ~HasPhrase(q, FIRST_FILE) /\ HasPhrase(q, SECOND_FILE) /\ Len(cache) < 2

\* the document whose content stands for the active file
EffectiveFile(cache, active) ==
  IF Truthy(active) THEN active ELSE At(cache, Len(cache) - 1)

\* the active file a step of r resolves with: the ingested document when r
\* uploaded one
ActiveIn(r) ==
  IF file'[r] /= Undefined THEN fileCache'[Len(fileCache')] ELSE activeFile

\* a next question gets the same outcome and leaves the same mode whether
\* the active file is active1 or active2
SameNext(cache, active1, active2, cmp) ==
  \A q \in Questions :
    LET next1 == Resolve(q, Undefined, cache, active1, cmp, << >>)
        next2 == Resolve(q, Undefined, cache, active2, cmp, << >>)
    IN /\ next1.kind = next2.kind
       /\ next1.fileContent = next2.fileContent
       /\ next1.compareMode = next2.compareMode
       /\ EffectiveFile(cache, next1.activeFile) = EffectiveFile(cache, next2.activeFile)

C15_NoOp(r) ==
  /\ HandsContext(r)
  /\ ~compareMode'
  /\ fileContent'[r] = IF fileCache' = << >>
                       THEN <<"G","e","n","e","r","a","l"," ","Q","u","e","s","t","i","o","n",":","\n","\n">> \o question'[r].chars
                       ELSE fileCache'[Len(fileCache')].content
  /\ EffectiveFile(fileCache', activeFile') = EffectiveFile(fileCache', ActiveIn(r))
  /\ SameNext(fileCache', activeFile', ActiveIn(r), compareMode')

C15_MissingElementNoOp ==
  [][\A r \in Requests :
       ( /\ ~compareMode
         /\ ~ComparePattern(question'[r])
         /\ AsksMissing(question'[r], fileCache')
         /\ ResolutionStep(r) )
       => C15_NoOp(r)]_vars

\* C15 as stated: any question with "first file" or "second file"
C15_AnyQuestionNoOp ==
  [][\A r \in Requests :
       ( /\ ~compareMode
         /\ AsksMissing(question'[r], fileCache')
         /\ ResolutionStep(r) )
       => C15_NoOp(r)]_vars

\* a request uploaded the only document and asked for the second file: the
\* active file is undefined and the context is the uploaded document
C15_Witness ==
  \E r \in Requests :
    /\ pc[r] = "completion"
    /\ file[r] /= Undefined
    /\ HasPhrase(question[r], SECOND_FILE)
    /\ ~ComparePattern(question[r])
    /\ Len(fileCache) = 1
    /\ activeFile = Undefined
    /\ ~compareMode
    /\ fileContent[r] = file[r].text

(***************************************************************************)
(* C16: a question that contains "both files", neither "first file" nor    *)
(* "second file", and does not match the compare pattern sets compare mode *)
(* and leaves the active file as it is after the ingest.  When the store   *)
(* then holds fewer than two documents the context is no composed block:   *)
(* it is the content of the active file, or of the most recently ingested  *)
(* document when the active file is undefined, or the question under the   *)
(* general heading when the store is empty; compare mode stays set.        *)
(***************************************************************************)
C16_BothFilesFrame ==
  [][\A r \in Requests :
       (SetsCompare(question'[r]) /\ ResolutionStep(r)) =>
         /\ compareMode'
         /\ activeFile' = ActiveIn(r)
         /\ Len(fileCache') < 2 =>
              /\ HandsContext(r)
              /\ fileContent'[r] =
                   IF Truthy(activeFile') THEN activeFile'.content
                   ELSE IF fileCache' = << >>
                   THEN <<"G","e","n","e","r","a","l"," ","Q","u","e","s","t","i","o","n",":","\n","\n">> \o question'[r].chars
                   ELSE fileCache'[Len(fileCache')].content]_vars

\* C16 as stated: any question that contains "both files"; the context is
\* the content of the active file, or the question when the store is empty
\* and nothing was uploaded
C16_BothFilesAsStated ==
  [][\A r \in Requests :
       (HasPhrase(question'[r], BOTH_FILES) /\ ResolutionStep(r)) =>
         /\ compareMode'
         /\ activeFile' = ActiveIn(r)
         /\ Len(fileCache') < 2 =>
              /\ HandsContext(r)
              /\ \/ /\ Truthy(activeFile')
                    /\ fileContent'[r] = activeFile'.content
                 \/ /\ fileCache' = << >>
                    /\ file'[r] = Undefined
                    /\ fileContent'[r] = <<"G","e","n","e","r","a","l"," ","Q","u","e","s","t","i","o","n",":","\n","\n">> \o question'[r].chars]_vars

\* "both files" was asked on a store of one document whose active file is
\* undefined: compare mode is set and the context is that document
C16_Witness ==
  \E r \in Requests :
    /\ pc[r] = "completion"
    /\ file[r] = Undefined
    /\ SetsCompare(question[r])
    /\ Len(fileCache) = 1
    /\ activeFile = Undefined
    /\ compareMode
    /\ fileContent[r] = fileCache[1].content

(***************************************************************************)
(* C17: the ingest and the resolution of a request are one step for the    *)
(* other requests.  Under every interleaving, a request that uploads a     *)
(* document with a plain question (no switch phrase, no compare pattern)   *)
(* and resolves while compare mode is off or the store holds fewer than    *)
(* two documents is handed exactly the content of its own upload, which is *)
(* then the last element of the store and the active file; no step of      *)
(* another request changes the context a request holds.                    *)
(***************************************************************************)
C17_OwnUpload ==
  [][\A r \in Requests :
       /\ ( /\ PlainQuestion(question[r])
            /\ TopicInferred(r)
            /\ (~compareMode \/ Len(fileCache') < 2) )
          => /\ HandsContext(r)
             /\ fileContent'[r] = file[r].text
             /\ fileCache'[Len(fileCache')].content = file[r].text
             /\ activeFile' = fileCache'[Len(fileCache')]
       /\ (pc[r] = "completion" /\ pc'[r] = "completion")
          => fileContent'[r] = fileContent[r]]_vars

\* a text upload with a plain question arrived, a "second file" question
\* arrived after it and selected element 1, and the upload then resolved:
\* its context is its own text, stored as the third document
C17_Witness ==
  \E r, o \in Requests :
    /\ Older(r, o)
    /\ pc[r] = "completion" /\ pc[o] = "completion"
    /\ file[r] /= Undefined /\ file[o] = Undefined
    /\ PlainQuestion(question[r])
    /\ HasPhrase(question[o], SECOND_FILE)
    /\ ~compareMode
    /\ Len(fileCache) = 3
    /\ fileContent[o] = fileCache[2].content
    /\ fileContent[o] /= file[r].text
    /\ activeFile = fileCache[3]
    /\ fileContent[r] = file[r].text

(***************************************************************************)
(* C18: when the upload cannot be read, pdfParse rejects or the topic      *)
(* request rejects, the request ends with the processing failure and the   *)
(* store, the active file and compare mode are as they were when the       *)
(* request arrived: no step of the request before its ingest changes them  *)
(* and the document is not stored.  When the completion call rejects, the  *)
(* request ends with the processing failure as well, but the store, the    *)
(* active file and compare mode stay as its ingest and its switch phrase   *)
(* left them.                                                              *)
(***************************************************************************)
\* request r fails before its ingest
C18_FailsBeforeIngest(r) ==
  \/ /\ file'[r] \in Files
     /\ question'[r] \in QuestionValues
     /\ ReceiveUnreadable(r, {question'[r]}, {file'[r]})
  \/ PdfParseFailed(r)
  \/ TopicInferenceFailed(r)

C18_NoRollback ==
  [][\A r \in OneRequest :
       /\ (pc'[r] \in {"pdfParse", "inferTopic"} \/ C18_FailsBeforeIngest(r)) =>
            UNCHANGED <<fileCache, activeFile, compareMode>>
       /\ C18_FailsBeforeIngest(r) =>
            (pc'[r] = "done" /\ res'[r] = ProcessingFailure)
       /\ CompletionFailed(r) =>
            /\ pc'[r] = "done" /\ res'[r] = ProcessingFailure
            /\ UNCHANGED <<fileCache, activeFile, compareMode>>
            /\ file[r] /= Undefined =>
                 /\ fileCache /= << >>
                 /\ fileCache[Len(fileCache)].content = file[r].text]_vars

\* the completion call of an upload with a "both files" question rejected:
\* the request failed, its document is stored and active, compare mode is set
C18_Witness ==
  \E r \in OneRequest :
    /\ pc[r] = "done"
    /\ res[r] = ProcessingFailure
    /\ file[r] /= Undefined
    /\ SetsCompare(question[r])
    /\ Len(fileCache) = 2
    /\ fileCache[2].content = file[r].text
    /\ activeFile = fileCache[2]
    /\ compareMode
    /\ fileContent[r] = BothFilesText(fileCache[1].content, fileCache[2].content)

(***************************************************************************)
(* C19: a request without a question field is resolved like a question     *)
(* without a switch phrase: it is handed a context (no failure) and leaves *)
(* the active file and compare mode as they are after its own ingest.      *)
(* The code does not satisfy this: question.match of line 34 throws a      *)
(* TypeError on the undefined question and the request ends with the       *)
(* processing failure, after its document has been stored.                 *)
(***************************************************************************)
C19_MissingQuestionTolerated ==
  [][\A r \in Requests :
       (question'[r] = Undefined /\ ResolutionStep(r)) =>
         /\ HandsContext(r)
         /\ activeFile' = ActiveIn(r)
         /\ compareMode' = compareMode]_vars

(***************************************************************************)
(* C20: when every awaited collaborator call settles, every request gets   *)
(* exactly one response under every interleaving.  A request in flight has *)
(* no response yet; the step that sends its response ends it, so the       *)
(* comparison error is never followed by an answer or a processing failure *)
(* for the same request; and every request in flight is eventually         *)
(* answered.                                                               *)
(***************************************************************************)
InFlight(r) == pc[r] \in {"pdfParse", "inferTopic", "completion"}

Responded(r) ==
  pc[r] = "done" /\ res[r] \in {Answer, ComparisonUnavailable, ProcessingFailure}

C20_ExactlyOneResponse ==
  /\ [][\A r \in Requests :
          /\ InFlight(r) => res[r] = NoResponse
          /\ res'[r] /= res[r] => (res[r] = NoResponse \/ pc[r] = "done")
          /\ (InFlight(r) /\ res'[r] /= NoResponse) => pc'[r] = "done"
          /\ (pc[r] = "done" /\ pc'[r] = "done" /\ res'[r] /= res[r]) =>
               /\ question'[r] \in QuestionValues
               /\ \/ ReceiveQuestion(r, {question'[r]})
                  \/ file'[r] \in Files /\ ReceiveUnreadable(r, {question'[r]}, {file'[r]})]_vars
  /\ \A r \in Requests : InFlight(r) ~> Responded(r)

\* a question got the comparison error while the upload of the other
\* request, which had arrived before it, was waiting for its answer
C20_Witness ==
  \E r, o \in Requests :
    /\ pc[r] = "done"
    /\ res[r] = ComparisonUnavailable
    /\ pc[o] = "completion"
    /\ res[o] = NoResponse
    /\ file[o] /= Undefined
    /\ arrivals = <<o>>
====
